---------------------------- MODULE Spec2Model ----------------------------
(***************************************************************************)
(* A model of src/src/carido-vo2-utils.py: the formula library (numpy      *)
(* element-wise arithmetic with broadcasting), the data cleaner            *)
(* remove_flat_treadmill and the summary steps of the two plotting         *)
(* functions (pandas dropna / groupby / agg / sort_values).                *)
(*                                                                         *)
(* The program is stateless: every call maps its arguments to a value or   *)
(* to a raised exception.  A behaviour of the model is one call: Init      *)
(* draws the function called and its arguments, the function's action      *)
(* runs it and records what it returned or raised.                         *)
(*                                                                         *)
(* Floats are exact rationals <<n, d>> with d > 0 in lowest terms, and     *)
(* <<1, 0>> = +inf, <<-1, 0>> = -inf, <<0, 0>> = NaN.  Signed zeros and    *)
(* rounding are not modelled.                                              *)
(***************************************************************************)
EXTENDS Integers, Sequences, FiniteSets

VARIABLES op, args, pc, result

vars == <<op, args, pc, result>>

\* ------------------------------------------------------------ bounds
\* Longest vector passed to a formula function.
MaxLen == 2
\* Most rows of a frame passed to the cleaner.
MaxRows == 2
\* Most records of a frame passed to an aggregator.
MaxRecs == 2

\* ------------------------------------------------------------ floats
NaN == <<0, 0>>
PosInf == <<1, 0>>
NegInf == <<-1, 0>>
Fin(i) == <<i, 1>>

IsFinite(x) == x[2] # 0
IsNaN(x) == x = NaN

Abs(i) == IF i < 0 THEN -i ELSE i
Sign(i) == IF i < 0 THEN -1 ELSE IF i = 0 THEN 0 ELSE 1

RECURSIVE Gcd(_, _)
Gcd(a, b) == IF b = 0 THEN a ELSE Gcd(b, a % b)

\* The rational n/d (d # 0) in lowest terms with a positive denominator.
Rat(n, d) ==
    LET g == Gcd(Abs(n), Abs(d))
    IN  <<(Sign(d) * n) \div g, Abs(d) \div g>>

\* IEEE-754 division as numpy performs it under
\* errstate(divide="ignore", invalid="ignore"): nothing is raised.
FDiv(a, b) ==
    IF IsNaN(a) \/ IsNaN(b) THEN NaN
    ELSE IF ~IsFinite(a)
         THEN IF ~IsFinite(b) THEN NaN
              ELSE IF b[1] < 0 THEN <<-a[1], 0>> ELSE a
    ELSE IF ~IsFinite(b) THEN Fin(0)
    ELSE IF b[1] = 0
         THEN IF a[1] = 0 THEN NaN ELSE <<Sign(a[1]), 0>>
    ELSE Rat(a[1] * b[2], a[2] * b[1])

\* ------------------------------------------------------------ arrays
\* np.asarray(x, dtype=float): dim 0 for a Python scalar, dim 1 for a
\* vector of len elements.  data holds the elements where the function's
\* values are modelled (efficiency), and is empty where only its shape is.
Scalar(x) == [dim |-> 0, len |-> 1, data |-> <<x>>]
Vector(xs) == [dim |-> 1, len |-> Len(xs), data |-> xs]
ShapeOnly(d, n) == [dim |-> d, len |-> n, data |-> <<>>]

ShapeOf(a) == [dim |-> a.dim, len |-> a.len]
ScalarShape == [dim |-> 0, len |-> 1]
\* The shape standing for "operands could not be broadcast together".
NoShape == [dim |-> -1, len |-> 0]

\* A mutant of Broadcast: a length-1 vector is not stretched.
BroadcastStrict(s, t) ==
    IF s = NoShape \/ t = NoShape THEN NoShape
    ELSE IF s.dim = 0 THEN t
    ELSE IF t.dim = 0 THEN s
    ELSE IF s.len = t.len THEN s
    ELSE NoShape

\* numpy's broadcasting of the operands of a binary element-wise operator.
Broadcast(s, t) ==
    IF s = NoShape \/ t = NoShape THEN NoShape
    ELSE IF s.dim = 0 THEN t
    ELSE IF t.dim = 0 THEN s
    ELSE IF s.len = t.len THEN s
    ELSE IF s.len = 1 THEN t
    ELSE IF t.len = 1 THEN s
    ELSE NoShape

\* Element i of array a stretched to n elements.
Elem(a, i) == IF a.len = 1 THEN a.data[1] ELSE a.data[i]

\* ------------------------------------------------------------ results
Pending == [status |-> "pending"]
Raised(e) == [status |-> e]
ShapeResult(s) ==
    IF s = NoShape THEN Raised("ValueError")
    ELSE [status |-> "ok", dim |-> s.dim, len |-> s.len, data |-> <<>>]

\* ------------------------------------------------------------ formula library
\* 3.5 + 0.1*S + 1.8*S*G
vo2_treadmill_gross_mLkgmin(speed_mph, grade_pct) ==
    LET S == ShapeOf(speed_mph)
        G == ShapeOf(grade_pct)
    IN  ShapeResult(Broadcast(S, Broadcast(S, G)))

\* 3.5 + 0.2*spm + 2.4*spm*step_h_m
vo2_stair_gross_mLkgmin(spm, step_h_m) ==
    ShapeResult(Broadcast(ShapeOf(spm), Broadcast(ShapeOf(spm), ShapeOf(step_h_m))))

\* (vo2 * mass_kg) / 1000.0 * 5.0
kcal_per_min_from_vo2_mLkgmin(vo2_mLkgmin, mass_kg) ==
    ShapeResult(Broadcast(ShapeOf(vo2_mLkgmin), ShapeOf(mass_kg)))

\* kcal_per_min_from_vo2_mLkgmin(vo2_gross - 3.5, mass_kg)
net_kcal_per_min_from_gross_vo2(vo2_gross_mLkgmin, mass_kg) ==
    kcal_per_min_from_vo2_mLkgmin(vo2_gross_mLkgmin, mass_kg)

\* mass_kg * g * v * G, with the default scalar g
mech_power_treadmill_W(mass_kg, speed_mph, grade_pct) ==
    ShapeResult(Broadcast(Broadcast(Broadcast(ShapeOf(mass_kg), ScalarShape),
                                    ShapeOf(speed_mph)),
                          ShapeOf(grade_pct)))

\* mass_kg * g * step_h_m * (spm / 60.0), with the default scalar g
mech_power_stair_W(mass_kg, spm, step_h_m) ==
    ShapeResult(Broadcast(Broadcast(Broadcast(ShapeOf(mass_kg), ScalarShape),
                                    ShapeOf(step_h_m)),
                          ShapeOf(spm)))

\* eta[~np.isfinite(eta)] = np.nan, on one element.
MaskNonFinite(x) == IF IsFinite(x) THEN x ELSE NaN

\* eta = mech / met; eta[~np.isfinite(eta)] = np.nan; return eta.
\* The quotient of two 0-d arrays is a numpy scalar, which does not
\* support item assignment: the masking statement raises TypeError.
efficiency(mech_W, met_W) ==
    LET s == Broadcast(ShapeOf(mech_W), ShapeOf(met_W))
    IN  IF s = NoShape THEN Raised("ValueError")
        ELSE IF s.dim = 0 THEN Raised("TypeError")
        ELSE [status |-> "ok", dim |-> 1, len |-> s.len,
              data |-> [i \in 1..s.len |->
                           MaskNonFinite(FDiv(Elem(mech_W, i), Elem(met_W, i)))]]

\* ------------------------------------------------------------ formula inputs
FloatInputs == {Fin(-1), Fin(0), Fin(100), PosInf, NegInf, NaN}

\* The shapes of the arrays of at most MaxLen elements.
ShapeInputs == {ShapeOnly(0, 1)} \cup {ShapeOnly(1, n) : n \in 0..MaxLen}
TwoArgOps == {"vo2_treadmill_gross_mLkgmin", "vo2_stair_gross_mLkgmin",
              "kcal_per_min_from_vo2_mLkgmin", "net_kcal_per_min_from_gross_vo2"}
ThreeArgOps == {"mech_power_treadmill_W", "mech_power_stair_W"}
FormulaOps == TwoArgOps \cup ThreeArgOps \cup {"efficiency"}

InitFormula ==
    /\ pc = "call"
    /\ result = Pending
    /\ \/ op \in TwoArgOps /\ args \in [1..2 -> ShapeInputs]
       \/ op \in ThreeArgOps /\ args \in [1..3 -> ShapeInputs]
       \/ /\ op = "efficiency"
          /\ \E k1, k2 \in 0..MaxLen, d1, d2 \in 0..1 :
                \E v1 \in [1..(IF d1 = 0 THEN 1 ELSE k1) -> FloatInputs],
                   v2 \in [1..(IF d2 = 0 THEN 1 ELSE k2) -> FloatInputs] :
                   /\ d1 = 0 => k1 = 1
                   /\ d2 = 0 => k2 = 1
                   /\ args = <<[dim |-> d1, len |-> Len(v1), data |-> v1],
                               [dim |-> d2, len |-> Len(v2), data |-> v2]>>

Return(r) ==
    /\ pc = "call"
    /\ pc' = "done"
    /\ result' = r
    /\ UNCHANGED <<op, args>>

CallVo2Treadmill ==
    op = "vo2_treadmill_gross_mLkgmin"
        /\ Return(vo2_treadmill_gross_mLkgmin(args[1], args[2]))
CallVo2Stair ==
    op = "vo2_stair_gross_mLkgmin"
        /\ Return(vo2_stair_gross_mLkgmin(args[1], args[2]))
CallKcalPerMin ==
    op = "kcal_per_min_from_vo2_mLkgmin"
        /\ Return(kcal_per_min_from_vo2_mLkgmin(args[1], args[2]))
CallNetKcalPerMin ==
    op = "net_kcal_per_min_from_gross_vo2"
        /\ Return(net_kcal_per_min_from_gross_vo2(args[1], args[2]))
CallMechPowerTreadmill ==
    op = "mech_power_treadmill_W"
        /\ Return(mech_power_treadmill_W(args[1], args[2], args[3]))
CallMechPowerStair ==
    op = "mech_power_stair_W"
        /\ Return(mech_power_stair_W(args[1], args[2], args[3]))
CallEfficiency ==
    op = "efficiency" /\ Return(efficiency(args[1], args[2]))

NextFormula ==
    \/ CallVo2Treadmill
    \/ CallVo2Stair
    \/ CallKcalPerMin
    \/ CallNetKcalPerMin
    \/ CallMechPowerTreadmill
    \/ CallMechPowerStair
    \/ CallEfficiency

SpecFormula == InitFormula /\ [][NextFormula]_vars

\* ------------------------------------------------------------ strings and cells
\* A string is a sequence of one-character strings.
Treadmill == <<"t", "r", "e", "a", "d", "m", "i", "l", "l">>
TreadmillPadded == <<" ", "T", "r", "e", "a", "d", "m", "i", "l", "l", " ">>
Stair == <<"s", "t", "a", "i", "r">>
NotANumber == <<"n", "/", "a">>

DigitVal == [c \in {"0", "1", "2", "3", "4", "5", "6", "7", "8", "9"} |->
                CASE c = "0" -> 0 [] c = "1" -> 1 [] c = "2" -> 2 [] c = "3" -> 3
                  [] c = "4" -> 4 [] c = "5" -> 5 [] c = "6" -> 6 [] c = "7" -> 7
                  [] c = "8" -> 8 [] c = "9" -> 9]

RECURSIVE DigitsValue(_)
DigitsValue(s) ==
    IF s = <<>> THEN 0
    ELSE 10 * DigitsValue(SubSeq(s, 1, Len(s) - 1)) + DigitVal[s[Len(s)]]

\* A cell of a frame: a float ("num", v), a string ("str", s) or a missing
\* value ("nan": None / NaN).
Num(i) == [k |-> "num", v |-> i, s |-> <<>>]
Str(t) == [k |-> "str", v |-> 0, s |-> t]
Missing == [k |-> "nan", v |-> 0, s |-> <<>>]

\* pd.to_numeric(cell, errors="coerce"): a number is kept, a string of
\* digits is parsed, anything else becomes NaN.
ToNumeric(cell) ==
    IF cell.k = "num" THEN Fin(cell.v)
    ELSE IF cell.k = "str" /\ cell.s # <<>>
            /\ \A i \in 1..Len(cell.s) : cell.s[i] \in DOMAIN DigitVal
         THEN Fin(DigitsValue(cell.s))
    ELSE NaN

\* A frame: its column names and its rows, each row a record of cells (a
\* string cell, for the modality column) read only at the frame's columns.
Frame(cols, rows) == [isNone |-> FALSE, cols |-> cols, rows |-> rows]
NoFrame == [isNone |-> TRUE, cols |-> {}, rows |-> <<>>]

\* DataFrame.empty: some axis has length 0.
IsEmpty(df) == df.cols = {} \/ df.rows = <<>>

\* ------------------------------------------------------------ data cleaner
\* A mutant of remove_flat_treadmill: the guard for None / empty is gone.
remove_flat_treadmill_unguarded(df, tol_pct) ==
    IF df.isNone THEN Raised("AttributeError")
    ELSE IF "modality" \notin df.cols THEN Raised("KeyError")
    ELSE Raised("AttributeError")

\* if df is None or df.empty: return df
\* out["modality"] raises KeyError without that column;
\* out["modality"].astype(str).strip() raises AttributeError: a Series has
\* no attribute strip (the string methods live under .str), so no later
\* statement of the function runs.
remove_flat_treadmill(df, tol_pct) ==
    IF df.isNone \/ IsEmpty(df) THEN [status |-> "ok", df |-> df]
    ELSE IF "modality" \notin df.cols THEN Raised("KeyError")
    ELSE Raised("AttributeError")

\* ------------------------------------------------------------ aggregation helpers
\* Float comparison of two finite floats.
Less(x, y) == x[1] * y[2] < y[1] * x[2]

RECURSIVE SumInts(_)
SumInts(xs) == IF xs = <<>> THEN 0 ELSE xs[1] + SumInts(Tail(xs))

IsValid(x) == ~IsNaN(x)

\* A mutant of Mean: a missing value counts in the denominator.
MeanCountingNaN(xs) ==
    LET present == SelectSeq(xs, IsValid)
    IN  IF present = <<>> THEN NaN
        ELSE Rat(SumInts([i \in 1..Len(present) |-> present[i][1]]), Len(xs))

\* The "mean" aggregation over a group's column: NaN is skipped, and the
\* mean of no value is NaN.  The values are whole numbers.
Mean(xs) ==
    LET present == SelectSeq(xs, IsValid)
    IN  IF present = <<>> THEN NaN
        ELSE Rat(SumInts([i \in 1..Len(present) |-> present[i][1]]), Len(present))

\* Lexicographic order on tuples of finite floats.
RECURSIVE KeyLess(_, _)
KeyLess(a, b) ==
    IF a = <<>> THEN FALSE
    ELSE \/ Less(a[1], b[1])
         \/ a[1] = b[1] /\ KeyLess(Tail(a), Tail(b))

\* groupby(keys) followed by sort_values(keys): the distinct keys ascending.
RECURSIVE SortKeys(_)
SortKeys(S) ==
    IF S = {} THEN <<>>
    ELSE LET m == CHOOSE x \in S : \A y \in S \ {x} : KeyLess(x, y)
         IN  <<m>> \o SortKeys(S \ {m})

\* A mutant of pick: the first name, whether or not the frame has it.
pick_first(cols, names) == IF names = <<>> THEN "" ELSE names[1]

\* pick(*names): the first name that is a column, "" standing for None.
RECURSIVE pick(_, _)
pick(cols, names) ==
    IF names = <<>> THEN ""
    ELSE IF names[1] \in cols THEN names[1]
    ELSE pick(cols, Tail(names))

\* Column c of the rows, coerced by pd.to_numeric(errors="coerce").
Column(rows, c) == [i \in 1..Len(rows) |-> ToNumeric(rows[i][c])]

\* ------------------------------------------------------------ treadmill aggregator
\* A mutant of TreadmillNeed: the measured efficiency is not required.
TreadmillNeedKeysOnly(eff_meas) == <<"speed_mph", "grade_pct">>

\* need = [speed, grade] + ([eff_meas] if eff_meas else [])
TreadmillNeed(eff_meas) ==
    <<"speed_mph", "grade_pct">> \o (IF eff_meas # "" THEN <<eff_meas>> ELSE <<>>)

\* The summary step of treadmill_efficiency_plot (lines 103-126):
\* pick the efficiency columns, coerce, dropna(subset=need) (KeyError when a
\* column of need is absent), groupby([speed, grade]), agg, sort_values.
TreadmillSummary(df) ==
    LET eff_meas == pick(df.cols, <<"eff_measured", "efficiency_measured">>)
        eff_theo == pick(df.cols, <<"eff_theory_net", "efficiency_theory_net">>)
        need == TreadmillNeed(eff_meas)
        Complete(r) == \A j \in 1..Len(need) : ~IsNaN(ToNumeric(r[need[j]]))
        kept == SelectSeq(df.rows, Complete)
        KeyOf(r) == <<ToNumeric(r["speed_mph"]), ToNumeric(r["grade_pct"])>>
        keys == SortKeys({KeyOf(kept[i]) : i \in 1..Len(kept)})
        Group(key) == SelectSeq(kept, LAMBDA r : KeyOf(r) = key)
    IN  IF \E j \in 1..Len(need) : need[j] \notin df.cols THEN Raised("KeyError")
        ELSE [status |-> "ok",
              cols |-> {"speed_mph", "grade_pct", "n"}
                         \cup (IF eff_meas # "" THEN {"eff_meas"} ELSE {})
                         \cup (IF eff_theo # "" THEN {"eff_theory"} ELSE {}),
              rows |-> [i \in 1..Len(keys) |->
                  [speed_mph |-> keys[i][1],
                   grade_pct |-> keys[i][2],
                   n |-> Len(Group(keys[i])),
                   eff_meas |-> IF eff_meas # "" THEN Mean(Column(Group(keys[i]), eff_meas))
                                ELSE NaN,
                   eff_theory |-> IF eff_theo # "" THEN Mean(Column(Group(keys[i]), eff_theo))
                                  ELSE NaN]]]

\* ------------------------------------------------------------ stair aggregator
\* A mutant of StairEffTheoryCol: the short spelling is looked up first.
StairEffTheoryColShortFirst(cols) ==
    IF "eff_theory_net" \in cols THEN "eff_theory_net"
    ELSE IF "efficiency_theory_net" \in cols THEN "efficiency_theory_net"
    ELSE ""

\* eff_theory_col (line 163), "" standing for None.
StairEffTheoryCol(cols) ==
    IF "efficiency_theory_net" \in cols THEN "efficiency_theory_net"
    ELSE IF "eff_theory_net" \in cols THEN "eff_theory_net"
    ELSE ""

\* The summary step of stair_efficiency_plot (lines 157-172): coerce,
\* dropna(subset=["spm"]) (KeyError without spm), groupby("spm"), agg
\* (KeyError when a column it names is absent), sort_values("spm").
StairSummary(df) ==
    LET eff_theory_col == StairEffTheoryCol(df.cols)
        Complete(r) == ~IsNaN(ToNumeric(r["spm"]))
        kept == SelectSeq(df.rows, Complete)
        KeyOf(r) == <<ToNumeric(r["spm"])>>
        keys == SortKeys({KeyOf(kept[i]) : i \in 1..Len(kept)})
        Group(key) == SelectSeq(kept, LAMBDA r : KeyOf(r) = key)
    IN  IF "spm" \notin df.cols THEN Raised("KeyError")
        ELSE IF {"aw_active_kcal_min", "theory_net_kcal_min"} \ df.cols # {}
             THEN Raised("KeyError")
        ELSE [status |-> "ok",
              cols |-> {"spm", "aw", "net", "efficiency_theory"},
              rows |-> [i \in 1..Len(keys) |->
                  [spm |-> keys[i][1],
                   aw |-> Mean(Column(Group(keys[i]), "aw_active_kcal_min")),
                   net |-> Mean(Column(Group(keys[i]), "theory_net_kcal_min")),
                   efficiency_theory |->
                       IF eff_theory_col # ""
                       THEN Mean(Column(Group(keys[i]), eff_theory_col))
                       ELSE Fin(Len(Group(keys[i])))]]]

\* ------------------------------------------------------------ frame inputs
\* Grades and tolerances are in hundredths of a percent (5 is 0.05 %),
\* efficiencies in hundredths.
\* The cells column c may hold in a frame with the columns cs: one of
\* dom[c], or Absent when the frame has no such column.
Absent == [k |-> "absent", v |-> 0, s |-> <<>>]
Cells(cs, dom, c) == IF c \in cs THEN dom[c] ELSE {Absent}

CleanerColumnSets == {{"modality", "grade_pct"}, {"modality"}, {"grade_pct"}, {}}
CleanerInputs ==
    [c \in {"modality", "grade_pct"} |->
        IF c = "modality" THEN {Str(Treadmill), Str(TreadmillPadded), Str(Stair)}
        ELSE {Num(0), Num(5), Str(NotANumber), Missing}]
ToleranceInputs == {0, 10}
CleanerRows(cs) ==
    [modality : Cells(cs, CleanerInputs, "modality"),
     grade_pct : Cells(cs, CleanerInputs, "grade_pct")]

TreadmillColumns == {"speed_mph", "grade_pct", "eff_measured", "efficiency_measured",
                     "eff_theory_net", "efficiency_theory_net"}
TreadmillColumnSets ==
    {{"speed_mph", "grade_pct", "eff_measured", "eff_theory_net"},
     {"speed_mph", "grade_pct"},
     {"speed_mph", "grade_pct", "efficiency_measured"},
     {"speed_mph", "grade_pct", "eff_theory_net", "efficiency_theory_net"},
     {"grade_pct", "eff_measured"},
     {"speed_mph", "eff_theory_net"},
     {}}
TreadmillInputs ==
    [c \in TreadmillColumns |->
        CASE c = "speed_mph" -> {Num(2), Num(3), Str(NotANumber)}
          [] c = "grade_pct" -> {Num(0), Num(5), Missing}
          [] c = "eff_measured" -> {Num(10), Str(<<"2", "0">>), Missing}
          [] c = "efficiency_measured" -> {Num(40), Missing}
          [] c = "eff_theory_net" -> {Num(30), Str(NotANumber)}
          [] c = "efficiency_theory_net" -> {Num(50), Missing}]

TreadmillRows(cs) ==
    [speed_mph : Cells(cs, TreadmillInputs, "speed_mph"),
     grade_pct : Cells(cs, TreadmillInputs, "grade_pct"),
     eff_measured : Cells(cs, TreadmillInputs, "eff_measured"),
     efficiency_measured : Cells(cs, TreadmillInputs, "efficiency_measured"),
     eff_theory_net : Cells(cs, TreadmillInputs, "eff_theory_net"),
     efficiency_theory_net : Cells(cs, TreadmillInputs, "efficiency_theory_net")]

StairColumns == {"spm", "aw_active_kcal_min", "theory_net_kcal_min",
                 "efficiency_theory_net", "eff_theory_net"}
StairColumnSets ==
    {{"spm", "aw_active_kcal_min", "theory_net_kcal_min", "efficiency_theory_net"},
     {"spm", "aw_active_kcal_min", "theory_net_kcal_min", "eff_theory_net"},
     {"spm", "aw_active_kcal_min", "theory_net_kcal_min"},
     StairColumns,
     {"aw_active_kcal_min", "theory_net_kcal_min"},
     {"spm", "theory_net_kcal_min"},
     {"spm", "aw_active_kcal_min", "eff_theory_net"},
     {}}
StairInputs ==
    [c \in StairColumns |->
        CASE c = "spm" -> {Num(60), Num(80), Missing}
          [] c = "aw_active_kcal_min" -> {Num(4), Missing}
          [] c = "theory_net_kcal_min" -> {Num(5), Str(<<"7">>)}
          [] c = "efficiency_theory_net" -> {Num(20), Missing}
          [] c = "eff_theory_net" -> {Num(30), Str(NotANumber)}]

StairRows(cs) ==
    [spm : Cells(cs, StairInputs, "spm"),
     aw_active_kcal_min : Cells(cs, StairInputs, "aw_active_kcal_min"),
     theory_net_kcal_min : Cells(cs, StairInputs, "theory_net_kcal_min"),
     efficiency_theory_net : Cells(cs, StairInputs, "efficiency_theory_net"),
     eff_theory_net : Cells(cs, StairInputs, "eff_theory_net")]

InitCleaner ==
    /\ op = "remove_flat_treadmill"
    /\ \/ \E tol \in ToleranceInputs : args = [df |-> NoFrame, tol_pct |-> tol]
       \/ \E cs \in CleanerColumnSets, k \in 0..MaxRows, tol \in ToleranceInputs :
             \E rows \in [1..k -> CleanerRows(cs)] :
                args = [df |-> Frame(cs, rows), tol_pct |-> tol]

InitTreadmill ==
    /\ op = "treadmill_efficiency_plot"
    /\ \E cs \in TreadmillColumnSets, k \in 0..MaxRecs :
          \E rows \in [1..k -> TreadmillRows(cs)] : args = [df |-> Frame(cs, rows)]

InitStair ==
    /\ op = "stair_efficiency_plot"
    /\ \E cs \in StairColumnSets, k \in 0..MaxRecs :
          \E rows \in [1..k -> StairRows(cs)] : args = [df |-> Frame(cs, rows)]

InitData ==
    /\ pc = "call"
    /\ result = Pending
    /\ (InitCleaner \/ InitTreadmill \/ InitStair)

CallRemoveFlatTreadmill ==
    op = "remove_flat_treadmill"
        /\ Return(remove_flat_treadmill(args.df, args.tol_pct))
CallTreadmillSummary ==
    op = "treadmill_efficiency_plot" /\ Return(TreadmillSummary(args.df))
CallStairSummary ==
    op = "stair_efficiency_plot" /\ Return(StairSummary(args.df))

NextData ==
    \/ CallRemoveFlatTreadmill
    \/ CallTreadmillSummary
    \/ CallStairSummary

SpecData == InitData /\ [][NextData]_vars

\* ------------------------------------------------------------ formula claims
Done(f) == pc = "done" /\ op = f

\* What the contract gives for one element: null when met_W is zero or
\* negative, or when mech_W or the quotient is not finite, else the quotient.
ContractEfficiency(mech, met) ==
    IF IsNaN(met) \/ met[1] <= 0 \/ ~IsFinite(mech) \/ ~IsFinite(FDiv(mech, met))
    THEN NaN
    ELSE FDiv(mech, met)

\* C2: every element of a returned efficiency vector is null when met_W is
\* zero or negative or when mech_W or the quotient is not finite, and is
\* mech_W / met_W otherwise.
C2_EfficiencyNullUnlessMetPositive ==
    (Done("efficiency") /\ result.status = "ok") =>
        \A i \in 1..result.len :
            result.data[i] = ContractEfficiency(Elem(args[1], i), Elem(args[2], i))

\* C3: efficiency never raises: with two scalars it returns what the vector
\* call returns for that element, and with equal-length vectors it returns
\* one value or null per element.
C3_EfficiencyNeverRaises ==
    Done("efficiency") =>
        /\ (args[1].dim = 0 /\ args[2].dim = 0) =>
              /\ result.status = "ok"
              /\ result.data[1] =
                    efficiency(Vector(args[1].data), Vector(args[2].data)).data[1]
        /\ (args[1].dim = 1 /\ args[2].dim = 1 /\ args[1].len = args[2].len) =>
              /\ result.status = "ok"
              /\ result.len = args[1].len

VectorArgs == {i \in DOMAIN args : args[i].dim = 1}

\* C10 as stated: a call of a formula function whose vector arguments have
\* different lengths, a length-1 vector paired with a longer one included,
\* fails with the shape-mismatch error (numpy's ValueError).
C10_AnyLengthMismatchRaises ==
    (pc = "done" /\ op \in FormulaOps
        /\ \E i, j \in VectorArgs : args[i].len # args[j].len)
    => result.status = "ValueError"

\* C10 amended: the call fails with the shape-mismatch error exactly when two
\* vector arguments have different lengths neither of which is 1; a
\* length-1 vector is broadcast, and the call returns a vector of the
\* common length of the others.
C10_MismatchRaisesUnlessLengthOne ==
    (pc = "done" /\ op \in FormulaOps /\ VectorArgs # {}) =>
        IF \E i, j \in VectorArgs :
               args[i].len # args[j].len /\ args[i].len # 1 /\ args[j].len # 1
        THEN result.status = "ValueError"
        ELSE /\ result.status = "ok"
             /\ result.dim = 1
             /\ \A i \in VectorArgs : args[i].len # 1 => result.len = args[i].len
             /\ (\A i \in VectorArgs : args[i].len = 1) => result.len = 1

\* A length-1 vector was paired with a longer one and the call returned.
C10_Witness ==
    /\ pc = "done"
    /\ op \in FormulaOps
    /\ \E i, j \in VectorArgs : args[i].len = 1 /\ args[j].len = 2
    /\ result.status = "ok"

\* ------------------------------------------------------------ cleaner claims
UpperToLower == [c \in {"T", "R", "E", "A", "D", "M", "I", "L", "S"} |->
                    CASE c = "T" -> "t" [] c = "R" -> "r" [] c = "E" -> "e"
                      [] c = "A" -> "a" [] c = "D" -> "d" [] c = "M" -> "m"
                      [] c = "I" -> "i" [] c = "L" -> "l" [] c = "S" -> "s"]

Lower(s) == [i \in 1..Len(s) |-> IF s[i] \in DOMAIN UpperToLower THEN UpperToLower[s[i]]
                                 ELSE s[i]]

RECURSIVE Strip(_)
Strip(s) ==
    IF s = <<>> THEN s
    ELSE IF s[1] = " " THEN Strip(Tail(s))
    ELSE IF s[Len(s)] = " " THEN Strip(SubSeq(s, 1, Len(s) - 1))
    ELSE s

\* The contract's drop condition: the modality, trimmed and lower-cased, is
\* "treadmill" and the grade is a number with abs(grade) <= tol.
IsFlatTreadmill(r, tol) ==
    /\ Lower(Strip(r.modality.s)) = Treadmill
    /\ ~IsNaN(ToNumeric(r.grade_pct))
    /\ Abs(ToNumeric(r.grade_pct)[1]) <= tol

CleanerCalledOnRecords ==
    /\ Done("remove_flat_treadmill")
    /\ ~args.df.isNone
    /\ ~IsEmpty(args.df)
    /\ "modality" \in args.df.cols

\* C1: for a non-empty input, remove_flat_treadmill returns exactly the
\* input records, in order, minus the flat treadmill records; so the stair
\* records are all kept.
C1_CleanerDropsExactlyFlatTreadmill ==
    CleanerCalledOnRecords =>
        /\ result.status = "ok"
        /\ result.df.rows =
              SelectSeq(args.df.rows, LAMBDA r : ~IsFlatTreadmill(r, args.tol_pct))

\* C4: a record whose grade_pct is missing or not a number (or whose frame
\* has no grade_pct column) is retained, and the call does not raise.
C4_CleanerKeepsRecordsWithoutGrade ==
    (CleanerCalledOnRecords
        /\ \E i \in 1..Len(args.df.rows) : IsNaN(ToNumeric(args.df.rows[i].grade_pct)))
    => /\ result.status = "ok"
       /\ \A i \in 1..Len(args.df.rows) :
             IsNaN(ToNumeric(args.df.rows[i].grade_pct)) =>
                 \E j \in 1..Len(result.df.rows) : result.df.rows[j] = args.df.rows[i]

\* ------------------------------------------------------------ treadmill claims
Records == args.df.rows
Summary == result.rows

MeasuredCol ==
    IF "eff_measured" \in args.df.cols THEN "eff_measured"
    ELSE IF "efficiency_measured" \in args.df.cols THEN "efficiency_measured"
    ELSE ""
TheoryCol ==
    IF "eff_theory_net" \in args.df.cols THEN "eff_theory_net"
    ELSE IF "efficiency_theory_net" \in args.df.cols THEN "efficiency_theory_net"
    ELSE ""

HasNumber(r, c) == ~IsNaN(ToNumeric(r[c]))
HasKeys(r) == HasNumber(r, "speed_mph") /\ HasNumber(r, "grade_pct")
\* A record the summary counts: its keys are numbers and so is its measured
\* efficiency, when the frame has a measured-efficiency column.
IsCounted(r) == HasKeys(r) /\ (MeasuredCol # "" => HasNumber(r, MeasuredCol))

SpeedGrade(r) == <<ToNumeric(r["speed_mph"]), ToNumeric(r["grade_pct"])>>
RowKey(row) == <<row.speed_mph, row.grade_pct>>

TreadmillReturned == Done("treadmill_efficiency_plot") /\ result.status = "ok"

\* The records with the key of summary row j, among those satisfying In.
Members(j, In(_)) ==
    {i \in 1..Len(Records) : In(Records[i]) /\ SpeedGrade(Records[i]) = RowKey(Summary[j])}

\* One row per distinct key of the records satisfying In, n the number of
\* those records, rows ascending by speed then grade.
OneRowPerKey(In(_)) ==
    /\ \A i \in 1..Len(Records) :
          In(Records[i]) => \E j \in 1..Len(Summary) : RowKey(Summary[j]) = SpeedGrade(Records[i])
    /\ \A j \in 1..Len(Summary) :
          /\ Members(j, In) # {}
          /\ Summary[j].n = Cardinality(Members(j, In))
    /\ \A j, k \in 1..Len(Summary) : j < k => KeyLess(RowKey(Summary[j]), RowKey(Summary[k]))

\* C5 as stated: one summary row per distinct (speed, grade) pair of the
\* records whose speed and grade are numbers, n counting those records,
\* sorted by speed then grade.
C5_OneRowPerValidKeyPair == TreadmillReturned => OneRowPerKey(HasKeys)

\* C5 amended: the records counted are those whose speed, grade and - when
\* the frame has a measured-efficiency column - measured efficiency are all
\* numbers; one row per distinct pair of those, n counting them, sorted.
C5_OneRowPerCountedKeyPair == TreadmillReturned => OneRowPerKey(IsCounted)

\* A record with numeric keys and no measured efficiency was left out of a
\* group that another record formed.
C5_Witness ==
    /\ TreadmillReturned
    /\ \E j \in 1..Len(Summary) :
          /\ Summary[j].n = 1
          /\ \E i \in 1..Len(Records) :
                /\ HasKeys(Records[i])
                /\ ~IsCounted(Records[i])
                /\ SpeedGrade(Records[i]) = RowKey(Summary[j])

RECURSIVE SumOver(_, _)
SumOver(S, c) ==
    IF S = {} THEN 0
    ELSE LET i == CHOOSE x \in S : TRUE
         IN  ToNumeric(Records[i][c])[1] + SumOver(S \ {i}, c)

\* x is the arithmetic mean of column c over the records S that have a
\* number there (NaN when none has).
IsMeanOf(x, S, c) ==
    LET present == {i \in S : HasNumber(Records[i], c)}
    IN  IF present = {} THEN IsNaN(x)
        ELSE IsFinite(x) /\ x[1] * Cardinality(present) = SumOver(present, c) * x[2]

MeansOver(In(_)) ==
    \A j \in 1..Len(Summary) :
        /\ MeasuredCol # "" => IsMeanOf(Summary[j].eff_meas, Members(j, In), MeasuredCol)
        /\ TheoryCol # "" => IsMeanOf(Summary[j].eff_theory, Members(j, In), TheoryCol)

\* C6 as stated: eff_meas and eff_theory are the means of the values present
\* among the records of the row's (speed, grade) group; a record lacking
\* one of the two values still contributes the other.
C6_MeansOverAllGroupRecords == TreadmillReturned => MeansOver(HasKeys)

\* C6 amended: the means are over the counted records of the group: a
\* record lacking the theoretical value still contributes its measured
\* value, but a record lacking the measured value (in a frame that has the
\* column) contributes nothing, its theoretical value included.
C6_MeansOverCountedGroupRecords == TreadmillReturned => MeansOver(IsCounted)

\* Two records at (3.0, 5.0) with measured 0.10 and 0.20 gave one row with
\* n = 2 and eff_meas = 0.15.
C6_Witness ==
    /\ TreadmillReturned
    /\ Len(Records) = 2
    /\ \A i \in 1..2 : SpeedGrade(Records[i]) = <<Fin(3), Fin(5)>>
    /\ MeasuredCol # ""
    /\ {ToNumeric(Records[i][MeasuredCol]) : i \in 1..2} = {Fin(10), Fin(20)}
    /\ Len(Summary) = 1
    /\ Summary[1].n = 2
    /\ Summary[1].eff_meas = Fin(15)

\* ------------------------------------------------------------ stair claims
StairReturned == Done("stair_efficiency_plot") /\ result.status = "ok"

HasSpm(r) == HasNumber(r, "spm")
StairMembers(j) ==
    {i \in 1..Len(Records) : HasSpm(Records[i]) /\ ToNumeric(Records[i]["spm"]) = Summary[j].spm}

\* C7: the stair summary has one row per distinct numeric spm, ascending by
\* spm, with the group's mean aw_active_kcal_min and mean
\* theory_net_kcal_min; its efficiency field is the group's mean of
\* efficiency_theory_net, else of eff_theory_net, when the frame has such a
\* column, and otherwise the number of records of the group.
C7_StairSummaryRows ==
    StairReturned =>
        /\ \A i \in 1..Len(Records) :
              HasSpm(Records[i]) =>
                  \E j \in 1..Len(Summary) : Summary[j].spm = ToNumeric(Records[i]["spm"])
        /\ \A j, k \in 1..Len(Summary) : j < k => Less(Summary[j].spm, Summary[k].spm)
        /\ \A j \in 1..Len(Summary) :
              /\ StairMembers(j) # {}
              /\ IsMeanOf(Summary[j].aw, StairMembers(j), "aw_active_kcal_min")
              /\ IsMeanOf(Summary[j].net, StairMembers(j), "theory_net_kcal_min")
              /\ IF "efficiency_theory_net" \in args.df.cols
                 THEN IsMeanOf(Summary[j].efficiency_theory, StairMembers(j),
                               "efficiency_theory_net")
                 ELSE IF "eff_theory_net" \in args.df.cols
                 THEN IsMeanOf(Summary[j].efficiency_theory, StairMembers(j),
                               "eff_theory_net")
                 ELSE Summary[j].efficiency_theory = Fin(Cardinality(StairMembers(j)))

\* Two groups came out of a frame without a theoretical-efficiency column,
\* each carrying its count.
C7_Witness ==
    /\ StairReturned
    /\ args.df.cols \cap {"efficiency_theory_net", "eff_theory_net"} = {}
    /\ Len(Summary) = 2
    /\ Summary[1].efficiency_theory = Fin(1)

\* ------------------------------------------------------------ absent columns, empty input
Aggregators == {"treadmill_efficiency_plot", "stair_efficiency_plot"}
AggregatorDone == pc = "done" /\ op \in Aggregators

\* The columns an aggregator reads unconditionally.
RequiredCols ==
    IF op = "treadmill_efficiency_plot" THEN {"speed_mph", "grade_pct"}
    ELSE {"spm", "aw_active_kcal_min", "theory_net_kcal_min"}

\* An output column is there exactly when one of its input spellings is.
OptionalColsFollowInput ==
    op = "treadmill_efficiency_plot" =>
        /\ "eff_meas" \in result.cols <=>
              args.df.cols \cap {"eff_measured", "efficiency_measured"} # {}
        /\ "eff_theory" \in result.cols <=>
              args.df.cols \cap {"eff_theory_net", "efficiency_theory_net"} # {}

\* C8 as stated: whatever columns a frame of records lacks, no error is raised; an absent
\* optional value column is omitted from the output and an absent grouping
\* column leaves every record out of every group.
C8_AbsentColumnsNeverRaise ==
    (AggregatorDone /\ Records # <<>>) =>
        /\ result.status = "ok"
        /\ OptionalColsFollowInput
        /\ (\E c \in {"speed_mph", "grade_pct", "spm"} \cap RequiredCols :
               c \notin args.df.cols) => Summary = <<>>

\* C8 amended: an absent efficiency column raises nothing (the treadmill
\* summary omits its output column, the stair summary puts the count in
\* it); an absent grouping column, or an absent aw_active_kcal_min or
\* theory_net_kcal_min in the stair frame, makes the call raise KeyError.
C8_AbsentEfficiencyColumnsOnlyTolerated ==
    AggregatorDone =>
        IF RequiredCols \subseteq args.df.cols
        THEN /\ result.status = "ok"
             /\ OptionalColsFollowInput
             /\ op = "stair_efficiency_plot" =>
                   result.cols = {"spm", "aw", "net", "efficiency_theory"}
        ELSE result.status = "KeyError"

\* A treadmill frame without efficiency columns was summarised, records
\* and all.
C8_Witness ==
    /\ Done("treadmill_efficiency_plot")
    /\ args.df.cols = {"speed_mph", "grade_pct"}
    /\ result.status = "ok"
    /\ result.cols = {"speed_mph", "grade_pct", "n"}
    /\ Len(Summary) = 2

CleanerSkipped == Done("remove_flat_treadmill") /\ (args.df.isNone \/ IsEmpty(args.df))
AggregatorOnNoRecords == AggregatorDone /\ Records = <<>>

\* C9 as stated: remove_flat_treadmill returns a null or empty collection
\* unchanged, and each aggregator given zero records returns zero rows
\* without raising.
C9_EmptyInputNeverRaises ==
    /\ CleanerSkipped => (result.status = "ok" /\ result.df = args.df)
    /\ AggregatorOnNoRecords => (result.status = "ok" /\ Summary = <<>>)

\* C9 amended: the same, for an aggregator only when the zero-record frame
\* still has the columns the aggregator reads unconditionally; without
\* them the call raises KeyError.
C9_EmptyInputWithColumnsNeverRaises ==
    /\ CleanerSkipped => (result.status = "ok" /\ result.df = args.df)
    /\ AggregatorOnNoRecords =>
          IF RequiredCols \subseteq args.df.cols
          THEN result.status = "ok" /\ Summary = <<>>
          ELSE result.status = "KeyError"

\* The cleaner was handed no frame at all and handed it back.
C9_Witness ==
    /\ CleanerSkipped
    /\ args.df.isNone
    /\ result.status = "ok"
    /\ result.df.isNone

=============================================================================
